---- MODULE Spec2Model ----
(***************************************************************************)
(* Model of the snakefmt formatting provider of vscode-snakefmt-provider:  *)
(* the executable locator (snakefmtPath.ts, getBinPath) and the process    *)
(* invoker (extension.ts, SnakemakeDocumentFormattingEditProvider).        *)
(*                                                                         *)
(* Strings of the program are TLA+ strings; document texts are sequences   *)
(* of characters, so that substr, endsWith and concatenation are computed. *)
(* JavaScript's undefined / null is the value Undefined.                   *)
(***************************************************************************)
EXTENDS Naturals, Sequences, FiniteSets, TLC

VARIABLES
    fs,            \* the paths that exist on disk (what fs.existsSync answers)
    envPATH,       \* process.env['PATH'] split at path.delimiter; <<>> when unset
    binPathCache,  \* snakefmtPath.ts: let binPathCache, a map name -> path
    lastLookup,    \* history: the getBinPath call made by the last step, if it made one
    firstResult,   \* history: name -> what the first getBinPath(name) returned
    config,        \* vscode.workspace.getConfiguration('snakefmt')
    document,      \* the vscode.TextDocument being formatted: its text and its eol
    outputChannel, \* extension.ts: export let outputChannel
    req,           \* the format request in flight: doFormatDocument's promise,
                   \* its closure variables and its child process
    host,          \* the document's file and vscode.workspace.workspaceFolders
    settingsCall,  \* settings.ts: the call in progress, its arguments and its result
    patchRun       \* a document formatted and its edits applied (testFormatting)

vars == <<fs, envPATH, binPathCache, lastLookup, firstResult, config, document,
          outputChannel, req, host, settingsCall, patchRun>>

Undefined == "undefined"

-----------------------------------------------------------------------------
(* Bounds of the model.                                                    *)

\* PATH lists have at most this many entries.
MaxPathParts == 2

\* Document texts have at most this many characters.
MaxTextLen == 2
MaxStrLen == 2      \* pieces of a setting's string
MaxEnvVars == 2     \* variables of process.env
MaxConfiguredKeys == 1  \* settings that have a value at some level
MaxHunks == 2       \* hunks of a patch

-----------------------------------------------------------------------------
(* The file system and the environment, as getBinPath sees them.           *)

\* Directories that PATH may name; '' is an empty PATH entry (as in "PATH=:/a").
PathDirs == {"", "/a", "/b"}

\* Names that getBinPath is asked for: the empty name (an executable setting
\* whose placeholders expand to nothing), bare names and an absolute path.
BareNames == {"snakefmt", "fmt"}
AbsoluteNames == {"/opt/snakefmt"}
BinNames == {""} \cup BareNames \cup AbsoluteNames

\* The current directory always exists.
Cwd == "."

\* parent[p]: the directory whose existence p needs.
Parent(p) ==
    CASE p \in {"/a/snakefmt", "/a/fmt"} -> "/a"
      [] p = "/b/snakefmt" -> "/b"
      [] OTHER -> Cwd

\* Every path the model's file system may hold ("snakefmt" is a file of
\* that name in the current directory).
BinFiles == {"/a", "/b", "/a/snakefmt", "/a/fmt", "/b/snakefmt", "snakefmt", "/opt/snakefmt"}

\* All PATH lists of at most n entries.
RECURSIVE PathLists(_)
PathLists(n) ==
    IF n = 0 THEN {<<>>}
    ELSE LET shorter == PathLists(n - 1)
         IN  shorter \cup {Append(l, d) : l \in {s \in shorter : Len(s) = n - 1}, d \in PathDirs}

\* JavaScript truthiness of process.env['PATH']: unset (<<>>) and the empty
\* string, which splits into one empty part, are falsy.
PathIsSet(pathparts) == pathparts # <<>> /\ pathparts # <<"">>

\* fs.existsSync(p): false for the empty string.
existsSync(p, fsNow) == p # "" /\ p \in fsNow

\* path.join(dir, name) of Node: empty segments are dropped, the result of
\* joining nothing is '.', segments are separated by one '/'.
PathJoin(dir, name) ==
    IF dir = "" /\ name = "" THEN Cwd
    ELSE IF dir = "" THEN name
    ELSE IF name = "" THEN dir
    ELSE IF name \in AbsoluteNames THEN dir \o name
    ELSE dir \o "/" \o name

\* JavaScript truthiness of binPathCache[binname]: a missing key is undefined
\* and the cached empty string is falsy.
CacheHit(cache, binname) == binname \in DOMAIN cache /\ cache[binname] # ""

\* binPathCache[binname] = value
CachePut(cache, binname, value) ==
    [n \in DOMAIN cache \cup {binname} |-> IF n = binname THEN value ELSE cache[n]]

\* The for loop of getBinPath over pathparts from index i on: the first
\* path.join(pathparts[i], binname) that exists, or Undefined.
RECURSIVE SearchPath(_, _, _, _)
SearchPath(pathparts, i, binname, fsNow) ==
    IF i > Len(pathparts) THEN Undefined
    ELSE LET binpath == PathJoin(pathparts[i], binname)
         IN  IF existsSync(binpath, fsNow) THEN binpath
             ELSE SearchPath(pathparts, i + 1, binname, fsNow)

\* getBinPath(binname): the value returned and the cache it leaves.
getBinPath(cache, binname, pathparts, fsNow) ==
    IF CacheHit(cache, binname)
    THEN [result |-> cache[binname], cache |-> cache]
    ELSE IF existsSync(binname, fsNow)
    THEN [result |-> binname, cache |-> CachePut(cache, binname, binname)]
    ELSE LET found == IF PathIsSet(pathparts)
                      THEN SearchPath(pathparts, 1, binname, fsNow)
                      ELSE Undefined
         IN  IF found # Undefined
             THEN [result |-> found, cache |-> CachePut(cache, binname, found)]
             ELSE [result |-> binname, cache |-> CachePut(cache, binname, binname)]

NoLookup == [made |-> FALSE, name |-> "", result |-> "", first |-> FALSE]

\* A call of getBinPath(binname) inside a step: the cache is updated and the
\* history variables record the call.
CallGetBinPath(binname) ==
    LET r == getBinPath(binPathCache, binname, envPATH, fs)
    IN  /\ binPathCache' = r.cache
        /\ lastLookup' = [made |-> TRUE, name |-> binname, result |-> r.result,
                          first |-> binname \notin DOMAIN firstResult]
        /\ firstResult' = IF binname \in DOMAIN firstResult THEN firstResult
                          ELSE CachePut(firstResult, binname, r.result)

-----------------------------------------------------------------------------
(* Documents: the text and end-of-line sequence of a vscode.TextDocument.  *)

CR == "\r"
LF == "\n"
Chars == {"a", CR, LF}

\* All character sequences of at most n characters.
RECURSIVE Texts(_)
Texts(n) ==
    IF n = 0 THEN {<<>>}
    ELSE LET shorter == Texts(n - 1)
         IN  shorter \cup {Append(t, c) : t \in {s \in shorter : Len(s) = n - 1}, c \in Chars}

\* The editor keeps one end-of-line sequence per document: an LF document
\* holds no CR, a CRLF document holds CR and LF only as the pair CR LF.
ValidText(t, eol) ==
    IF eol = "LF"
    THEN \A i \in 1..Len(t) : t[i] # CR
    ELSE \A i \in 1..Len(t) :
            /\ t[i] = CR => (i < Len(t) /\ t[i + 1] = LF)
            /\ t[i] = LF => (i > 1 /\ t[i - 1] = CR)

Documents(n) ==
    {d \in [text : Texts(n), eol : {"LF", "CRLF"}] : ValidText(d.text, d.eol)}

\* document.offsetAt(position) never answers an offset inside a CR LF pair.
ValidOffset(t, k) == ~(k >= 1 /\ k < Len(t) /\ t[k] = CR /\ t[k + 1] = LF)

\* range: vscode.Range | null, as the offsets of its start and end.
NoRange == [given |-> FALSE, start |-> 0, end |-> 0]
Ranges(t) ==
    {NoRange} \cup
    {r \in [given : {TRUE}, start : 0..Len(t), end : 0..Len(t)] :
        r.start <= r.end /\ ValidOffset(t, r.start) /\ ValidOffset(t, r.end)}

\* String.prototype.substr(offset, length)
substr(s, offset, length) ==
    LET last == IF offset + length > Len(s) THEN Len(s) ELSE offset + length
    IN  SubSeq(s, offset + 1, last)

\* String.prototype.endsWith(suffix)
endsWith(s, suffix) ==
    /\ Len(s) >= Len(suffix)
    /\ SubSeq(s, Len(s) - Len(suffix) + 1, Len(s)) = suffix

\* CodeContent that takes the whole text whatever the range.
CodeContent_IgnoresRange(doc, range) ==
    LET eol == IF doc.eol = "CRLF" THEN <<LF>> ELSE <<CR, LF>>
    IN  IF ~endsWith(doc.text, eol) THEN doc.text \o eol ELSE doc.text

\* doFormatDocument, the text it sends: the document's text, or the text of
\* the range, with eol appended unless the text ends with eol, where eol
\* is '\n' for a CRLF document and '\r\n' for any other.
CodeContent(doc, range) ==
    LET whole == doc.text
        selected == IF range.given
                    THEN substr(whole, range.start, range.end - range.start)
                    ELSE whole
        eol == IF doc.eol = "CRLF" THEN <<LF>> ELSE <<CR, LF>>
    IN  IF ~endsWith(selected, eol) THEN selected \o eol ELSE selected

-----------------------------------------------------------------------------
(* Configuration.                                                          *)

\* package.json: the default of snakefmt.config, which nothing expands.
DefaultConfigFile == "${workspaceFolder}/pyproject.toml"

\* Values of the setting snakefmt.config: unset, a file, the default.
ConfigFileSettings == {"", "custom.toml", DefaultConfigFile}
ConfigFiles == {"custom.toml"}

\* Values of snakefmt.executable and of snakefmt.executable.<platform>.
\* None holds a placeholder, so the replace calls of getExecutablePath leave
\* them as they are.
ExecutableSettings == {"", "snakefmt", "/opt/snakefmt"}
PlatformExecutableSettings == {"", "/opt/snakefmt"}

Configurations ==
    [executable : ExecutableSettings,
     executablePlatform : PlatformExecutableSettings,
     config : ConfigFileSettings]

\* getExecutablePath that prefers the general setting to the platform's.
getExecutablePath_GeneralFirst(cfg) ==
    LET platformExecPath == cfg.executablePlatform
        defaultExecPath == cfg.executable
        execPath == IF defaultExecPath # "" THEN defaultExecPath ELSE platformExecPath
    IN  IF execPath = "" THEN "snakefmt" ELSE execPath

\* getExecutablePath(): the platform's setting, else the general one, else
\* the default name.
getExecutablePath(cfg) ==
    LET platformExecPath == cfg.executablePlatform
        defaultExecPath == cfg.executable
        execPath == IF platformExecPath # "" THEN platformExecPath ELSE defaultExecPath
    IN  IF execPath = "" THEN "snakefmt" ELSE execPath

\* BuildArgs without the existsSync(cfg_file) test.
BuildArgs_NoExistsCheck(cfg_file, fsNow) ==
    LET args == <<"--compact-diff", "-">>
    IN  IF cfg_file # "" THEN args \o <<"--config", cfg_file>> ELSE args

\* doFormatDocument, the argument list of the subprocess.
BuildArgs(cfg_file, fsNow) ==
    LET args == <<"--compact-diff", "-">>
    IN  IF cfg_file # "" /\ existsSync(cfg_file, fsNow)
        THEN args \o <<"--config", cfg_file>>
        ELSE args

-----------------------------------------------------------------------------
(* What cp.execFile hands to its callback: (error, stdout, stderr).        *)

NoError == [isNull |-> TRUE, code |-> "0", message |-> <<>>]

\* The process ran and ended with exit status code (code # 0), or was ended
\* by a signal (code null): Node builds 'Command failed: <cmd>\n<stderr>'.
CommandFailed(code, file, stderr) ==
    [isNull |-> FALSE, code |-> code, message |-> <<"Command failed:", file, stderr>>]

\* The process could not be started: Node's 'spawn <file> ENOENT'.
SpawnFailed(file) ==
    [isNull |-> FALSE, code |-> "ENOENT", message |-> <<"spawn", file, "ENOENT">>]

\* The output outgrew maxBuffer.
MaxBufferExceeded ==
    [isNull |-> FALSE, code |-> "ERR_CHILD_PROCESS_STDIO_MAXBUFFER",
     message |-> <<"stdout maxBuffer length exceeded">>]

ExitCodes == {"1", "2"}
Stdouts == {"", "patch", "garbage"}
Stderrs == {"", "diagnostics"}

\* Every completion of the subprocess started as file.
Outcomes(file) ==
    [error : {NoError}, stdout : Stdouts, stderr : Stderrs]
    \cup {[error |-> CommandFailed(c, file, e), stdout |-> "", stderr |-> e] :
            c \in ExitCodes, e \in Stderrs}
    \cup {[error |-> CommandFailed("null", file, e), stdout |-> o, stderr |-> e] :
            o \in Stdouts, e \in Stderrs}
    \cup {[error |-> SpawnFailed(file), stdout |-> "", stderr |-> ""]}
    \cup {[error |-> MaxBufferExceeded, stdout |-> "", stderr |-> e] : e \in Stderrs}

NoOutcome == [error |-> NoError, stdout |-> "", stderr |-> ""]

\* String.prototype.startsWith on error.message
startsWith(message, prefix) == message # <<>> /\ Head(message) = prefix

-----------------------------------------------------------------------------
(* Values a promise settles with.                                          *)

NoCall == [text |-> <<>>, patch |-> "", range |-> NoRange]
ValUndefined == [kind |-> "undefined", text |-> "", call |-> NoCall]
ValString(s) == [kind |-> "string", text |-> s, call |-> NoCall]
ValEdits(call) == [kind |-> "edits", text |-> "", call |-> call]
ValFault(call) == [kind |-> "fault", text |-> "", call |-> call]

\* getTextEditsFromPatch(before, patch, range) of ./editor: the edits the
\* patch describes, named by the arguments they are computed from; a patch
\* that cannot be parsed raises a fault.
getTextEditsFromPatch(before, patch, range) ==
    LET call == [text |-> before, patch |-> patch, range |-> range]
    IN  IF patch = "garbage" THEN ValFault(call) ELSE ValEdits(call)

Pending == [state |-> "pending", value |-> ValUndefined]
Resolved(v) == [state |-> "resolved", value |-> v]
Rejected(v) == [state |-> "rejected", value |-> v]

\* resolve(v) and reject(v) act on a pending promise only.
Settle(promise, outcome) == IF promise.state = "pending" THEN outcome ELSE promise

NotAvailableMessage(formatCommandBinPath) ==
    "The '" \o formatCommandBinPath \o "' command is not available.  Please check your snakefmt.executable user setting and ensure it is installed."

SyntaxErrorsMessage == "Cannot format due to syntax errors."
CancelMessage == "Cancelation requested"

\* OnExecFileDone whose first test leaves out stderr.length !== 0.
OnExecFileDone_NoStderrTest(formatCommandBinPath, codeContent, range, error, stdout, stderr) ==
    IF ~error.isNull /\ error.code # "0"
    THEN [channelOps |-> <<<<"show">>, <<"clear">>, <<"appendLine", stderr>>>>,
          messages |-> IF startsWith(error.message, "Command failed:")
                       THEN <<NotAvailableMessage(formatCommandBinPath)>>
                       ELSE <<>>,
          translated |-> <<>>,
          settle |-> IF startsWith(error.message, "Command failed:")
                     THEN Resolved(ValUndefined)
                     ELSE Rejected(ValString(SyntaxErrorsMessage))]
    ELSE LET edits == getTextEditsFromPatch(codeContent, stdout, range)
         IN  [channelOps |-> <<>>, messages |-> <<>>,
              translated |-> <<edits.call>>,
              settle |-> IF edits.kind = "fault" THEN Rejected(edits)
                         ELSE Resolved(edits)]

\* OnExecFileDone that hands the patch translator no range.
OnExecFileDone_DropsRange(formatCommandBinPath, codeContent, range, error, stdout, stderr) ==
    IF ~error.isNull /\ error.code # "0" /\ stderr # ""
    THEN [channelOps |-> <<<<"show">>, <<"clear">>, <<"appendLine", stderr>>>>,
          messages |-> IF startsWith(error.message, "Command failed:")
                       THEN <<NotAvailableMessage(formatCommandBinPath)>>
                       ELSE <<>>,
          translated |-> <<>>,
          settle |-> IF startsWith(error.message, "Command failed:")
                     THEN Resolved(ValUndefined)
                     ELSE Rejected(ValString(SyntaxErrorsMessage))]
    ELSE IF ~error.isNull /\ error.code # "0"
    THEN [channelOps |-> <<>>, messages |-> <<>>, translated |-> <<>>,
          settle |-> Rejected(ValUndefined)]
    ELSE LET edits == getTextEditsFromPatch(codeContent, stdout, NoRange)
         IN  [channelOps |-> <<>>, messages |-> <<>>,
              translated |-> <<edits.call>>,
              settle |-> IF edits.kind = "fault" THEN Rejected(edits)
                         ELSE Resolved(edits)]

\* OnExecFileDone without the catch: what the translator had parsed before
\* the fault is delivered as the edits.
OnExecFileDone_NoCatch(formatCommandBinPath, codeContent, range, error, stdout, stderr) ==
    IF ~error.isNull /\ error.code # "0" /\ stderr # ""
    THEN [channelOps |-> <<<<"show">>, <<"clear">>, <<"appendLine", stderr>>>>,
          messages |-> IF startsWith(error.message, "Command failed:")
                       THEN <<NotAvailableMessage(formatCommandBinPath)>>
                       ELSE <<>>,
          translated |-> <<>>,
          settle |-> IF startsWith(error.message, "Command failed:")
                     THEN Resolved(ValUndefined)
                     ELSE Rejected(ValString(SyntaxErrorsMessage))]
    ELSE IF ~error.isNull /\ error.code # "0"
    THEN [channelOps |-> <<>>, messages |-> <<>>, translated |-> <<>>,
          settle |-> Rejected(ValUndefined)]
    ELSE LET edits == getTextEditsFromPatch(codeContent, stdout, range)
         IN  [channelOps |-> <<>>, messages |-> <<>>,
              translated |-> <<edits.call>>,
              settle |-> Resolved(ValEdits(edits.call))]

\* A callback whose bare-failure branch returns without settling the promise.
OnExecFileDone_BareReturn(formatCommandBinPath, codeContent, range, error, stdout, stderr) ==
    IF ~error.isNull /\ error.code # "0" /\ stderr # ""
    THEN [channelOps |-> <<<<"show">>, <<"clear">>, <<"appendLine", stderr>>>>,
          messages |-> IF startsWith(error.message, "Command failed:")
                       THEN <<NotAvailableMessage(formatCommandBinPath)>>
                       ELSE <<>>,
          translated |-> <<>>,
          settle |-> IF startsWith(error.message, "Command failed:")
                     THEN Resolved(ValUndefined)
                     ELSE Rejected(ValString(SyntaxErrorsMessage))]
    ELSE IF ~error.isNull /\ error.code # "0"
    THEN [channelOps |-> <<>>, messages |-> <<>>, translated |-> <<>>,
          settle |-> Pending]
    ELSE LET edits == getTextEditsFromPatch(codeContent, stdout, range)
         IN  [channelOps |-> <<>>, messages |-> <<>>,
              translated |-> <<edits.call>>,
              settle |-> IF edits.kind = "fault" THEN Rejected(edits)
                         ELSE Resolved(edits)]

\* The callback given to cp.execFile: what it does to the output channel,
\* the messages it shows, the calls of the patch translator it makes and the
\* way it settles the promise.
OnExecFileDone(formatCommandBinPath, codeContent, range, error, stdout, stderr) ==
    IF ~error.isNull /\ error.code # "0" /\ stderr # ""
    THEN [channelOps |-> <<<<"show">>, <<"clear">>, <<"appendLine", stderr>>>>,
          messages |-> IF startsWith(error.message, "Command failed:")
                       THEN <<NotAvailableMessage(formatCommandBinPath)>>
                       ELSE <<>>,
          translated |-> <<>>,
          settle |-> IF startsWith(error.message, "Command failed:")
                     THEN Resolved(ValUndefined)
                     ELSE Rejected(ValString(SyntaxErrorsMessage))]
    ELSE IF ~error.isNull /\ error.code # "0"
    THEN [channelOps |-> <<>>, messages |-> <<>>, translated |-> <<>>,
          settle |-> Rejected(ValUndefined)]
    ELSE LET edits == getTextEditsFromPatch(codeContent, stdout, range)
         IN  [channelOps |-> <<>>, messages |-> <<>>,
              translated |-> <<edits.call>>,
              settle |-> IF edits.kind = "fault" THEN Rejected(edits)
                         ELSE Resolved(edits)]

\* outputChannel.show(), .clear() and .appendLine(line), applied in order.
RECURSIVE ApplyChannelOps(_, _)
ApplyChannelOps(channel, ops) ==
    IF ops = <<>> THEN channel
    ELSE LET op == Head(ops)
             next == CASE op[1] = "show" -> [channel EXCEPT !.shown = TRUE]
                       [] op[1] = "clear" -> [channel EXCEPT !.lines = <<>>]
                       [] OTHER -> [channel EXCEPT !.lines = Append(@, op[2])]
         IN  ApplyChannelOps(next, Tail(ops))

-----------------------------------------------------------------------------
(* The format request.                                                     *)

NoStdin == [open |-> FALSE, written |-> <<>>, ended |-> FALSE]

\* The document's file and the folders of the workspace; no folder open is
\* workspaceFolders undefined, written <<>>.
DocumentFiles ==
    {[isUntitled |-> FALSE, fileName |-> "/proj/Snakefile"],
     [isUntitled |-> TRUE, fileName |-> "Untitled-1"]}
WorkspaceFolderLists == {<<>>, <<"/ws">>, <<"/ws", "/ws2">>}
Hosts ==
    {[isUntitled |-> d.isUntitled, fileName |-> d.fileName, workspaceFolders |-> w] :
        d \in DocumentFiles, w \in WorkspaceFolderLists}

\* path.dirname on the file names of the model.
dirname(p) ==
    CASE p = "/proj/Snakefile" -> "/proj"
      [] OTHER -> "."

\* workingPath: the first workspace folder's path or '', replaced by the
\* directory of the document's file when the document is not untitled.
WorkingPath(h) ==
    IF ~h.isUntitled THEN dirname(h.fileName)
    ELSE IF h.workspaceFolders # <<>> THEN h.workspaceFolders[1]
    ELSE ""

\* The options object handed to cp.execFile; it has no cwd property.
MaxBuffer == 1073741824
NoOptions == [windowsHide |-> FALSE, maxBuffer |-> 0, cwd |-> Undefined]
ExecFileOptions(workingPath) ==
    [windowsHide |-> TRUE, maxBuffer |-> MaxBuffer, cwd |-> Undefined]

\* No request in flight.
ReqIdle ==
    [pc |-> "idle", range |-> NoRange, token |-> FALSE,
     formatCommandBinPath |-> "", codeContent |-> <<>>, args |-> <<>>,
     workingPath |-> "", options |-> NoOptions,
     cfg_file |-> "", cfgExisted |-> FALSE,
     stdin |-> NoStdin, cancel |-> "no", killed |-> FALSE,
     outcome |-> NoOutcome, promise |-> Pending,
     channelOps |-> <<>>, messages |-> <<>>, translated |-> <<>>]

\* doFormatDocument(document, range, _options, token): the promise executor
\* up to the registration of the cancellation handler. stdinOpen says
\* whether the child process has a stdin stream.
StartFormat(range, token, stdinOpen) ==
    /\ req.pc = "idle"
    /\ CallGetBinPath(getExecutablePath(config))
    /\ LET formatCommandBinPath == getBinPath(binPathCache, getExecutablePath(config),
                                              envPATH, fs).result
           codeContent == CodeContent(document, range)
           workingPath == WorkingPath(host)
           cfg_file == config.config
           args == BuildArgs(cfg_file, fs)
       IN  req' = [ReqIdle EXCEPT
                     !.pc = "running",
                     !.workingPath = workingPath,
                     !.options = ExecFileOptions(workingPath),
                     !.range = range,
                     !.token = token,
                     !.formatCommandBinPath = formatCommandBinPath,
                     !.codeContent = codeContent,
                     !.cfg_file = cfg_file,
                     !.cfgExisted = cfg_file \in fs,
                     !.args = args,
                     !.stdin = IF stdinOpen
                               THEN [open |-> TRUE, written |-> codeContent, ended |-> TRUE]
                               ELSE NoStdin]
    /\ UNCHANGED <<host, settingsCall, patchRun, fs, envPATH, config, document, outputChannel>>

\* The child process ends, or fails to start: its completion is queued.
\* A child without a stdin stream is one that could not be started. A
\* running child that proc.kill() signalled is ended by the signal, SIGTERM
\* with its default action (code null).
ProcExit(o) ==
    /\ req.pc = "running"
    /\ o \in Outcomes(req.formatCommandBinPath)
    /\ ~req.stdin.open => o.error = SpawnFailed(req.formatCommandBinPath)
    /\ req.killed => (~o.error.isNull /\ o.error.code = "null")
    /\ req' = [req EXCEPT !.pc = "exited", !.outcome = o]
    /\ lastLookup' = NoLookup
    /\ UNCHANGED <<host, settingsCall, patchRun, fs, envPATH, binPathCache, firstResult, config, document, outputChannel>>

\* token.onCancellationRequested fires: proc.kill() and reject(...).
\* req.cancel records when: while the process ran, after it ended and before
\* the callback ran, or after the callback.
Cancel ==
    /\ req.pc \in {"running", "exited", "done"}
    /\ req.token
    /\ req.cancel = "no"
    /\ req' = [req EXCEPT
                 !.cancel = CASE req.pc = "running" -> "running"
                              [] req.pc = "exited" -> "exited"
                              [] OTHER -> "after",
                 !.killed = TRUE,
                 !.promise = Settle(@, Rejected(ValString(CancelMessage)))]
    /\ lastLookup' = NoLookup
    /\ UNCHANGED <<host, settingsCall, patchRun, fs, envPATH, binPathCache, firstResult, config, document, outputChannel>>

\* The callback of cp.execFile runs with the process's completion.
Callback ==
    /\ req.pc = "exited"
    /\ LET done == OnExecFileDone(req.formatCommandBinPath, req.codeContent, req.range,
                                  req.outcome.error, req.outcome.stdout, req.outcome.stderr)
       IN  /\ req' = [req EXCEPT
                        !.pc = "done",
                        !.promise = Settle(@, done.settle),
                        !.channelOps = done.channelOps,
                        !.messages = done.messages,
                        !.translated = done.translated]
           /\ outputChannel' = ApplyChannelOps(outputChannel, done.channelOps)
    /\ lastLookup' = NoLookup
    /\ UNCHANGED <<host, settingsCall, patchRun, fs, envPATH, binPathCache, firstResult, config, document>>

\* The caller is done with a settled request whose process has completed;
\* the next request may start.
Dispose ==
    /\ req.pc = "done"
    /\ req' = ReqIdle
    /\ lastLookup' = NoLookup
    /\ UNCHANGED <<host, settingsCall, patchRun, fs, envPATH, binPathCache, firstResult, config, document, outputChannel>>

\* A setting of the snakefmt section is changed.
ConfigChange(cfg) ==
    /\ cfg # config
    /\ config' = cfg
    /\ lastLookup' = NoLookup
    /\ UNCHANGED <<host, settingsCall, patchRun, fs, envPATH, binPathCache, firstResult, document, outputChannel, req>>

-----------------------------------------------------------------------------
(* Steps of the executable locator and of its environment.                 *)

\* Some caller asks for getBinPath(binname).
Lookup(binname) ==
    /\ CallGetBinPath(binname)
    /\ UNCHANGED <<host, settingsCall, patchRun, fs, envPATH, config, document, outputChannel, req>>

\* A file or directory appears (a binary is installed, a config file written).
FsCreate(p) ==
    /\ p \notin fs
    /\ Parent(p) \in fs
    /\ fs' = fs \cup {p}
    /\ lastLookup' = NoLookup
    /\ UNCHANGED <<host, settingsCall, patchRun, envPATH, binPathCache, firstResult, config, document, outputChannel, req>>

\* A file or an empty directory disappears.
FsRemove(p) ==
    /\ p \in fs
    /\ \A q \in fs : Parent(q) # p
    /\ fs' = fs \ {p}
    /\ lastLookup' = NoLookup
    /\ UNCHANGED <<host, settingsCall, patchRun, envPATH, binPathCache, firstResult, config, document, outputChannel, req>>

\* process.env['PATH'] is assigned.
SetPath(l) ==
    /\ l # envPATH
    /\ envPATH' = l
    /\ lastLookup' = NoLookup
    /\ UNCHANGED <<host, settingsCall, patchRun, fs, binPathCache, firstResult, config, document, outputChannel, req>>

-----------------------------------------------------------------------------
(* The formatter's patch, its translation into edits and their application. *)

NoPatchRun == [pc |-> "idle"]

Min(a, b) == IF a <= b THEN a ELSE b

\* The lines of a text, each with its line terminator; the last line has
\* none when the text does not end with one.
RECURSIVE SplitLines(_)
SplitLines(t) ==
    IF t = <<>> THEN <<>>
    ELSE IF \E i \in DOMAIN t : t[i] = LF
    THEN LET i == CHOOSE i \in DOMAIN t : t[i] = LF /\ \A j \in 1..(i - 1) : t[j] # LF
         IN  <<SubSeq(t, 1, i)>> \o SplitLines(SubSeq(t, i + 1, Len(t)))
    ELSE <<t>>

RECURSIVE Flatten(_)
Flatten(lines) == IF lines = <<>> THEN <<>> ELSE Head(lines) \o Flatten(Tail(lines))

\* The offset at which line n (from 1) of the text starts; the line after
\* the last starts at the end of the text.
LineStart(t, n) == Len(Flatten(SubSeq(SplitLines(t), 1, n - 1)))

\* A hunk of the compact diff: count lines of the original from line start
\* are replaced by lines; with count 0 the lines are inserted after line
\* start.
ReplacementLines == {<<"a", LF>>, <<LF>>}
Replacements == {<<>>} \cup {<<l>> : l \in ReplacementLines}
HunksOf(n) ==
    {h \in [start : 0..n, count : 0..n, lines : Replacements] :
        /\ h.count = 0 => h.lines # <<>>
        /\ h.count > 0 => (h.start >= 1 /\ h.start + h.count - 1 <= n)}

\* The first original line after the unchanged lines before the hunk, and
\* the last original line the hunk consumes.
FirstLine(h) == IF h.count = 0 THEN h.start + 1 ELSE h.start
LastLine(h) == IF h.count = 0 THEN h.start ELSE h.start + h.count - 1

\* The patches of at most k hunks for a text of n lines: hunks in ascending
\* order with an unchanged line between two of them.
RECURSIVE Patches(_, _)
Patches(n, k) ==
    IF k = 0 THEN {<<>>}
    ELSE Patches(n, k - 1)
         \cup {Append(x[1], x[2]) :
                 x \in {y \in {q \in Patches(n, k - 1) : Len(q) = k - 1} \X HunksOf(n) :
                           y[1] = <<>> \/ FirstLine(y[2]) > LastLine(y[1][Len(y[1])]) + 1}}

\* The lines the formatter's patch makes of the lines it was given: the
\* formatter's output.
RECURSIVE ApplyHunks(_, _)
ApplyHunks(lines, patch) ==
    IF patch = <<>> THEN lines
    ELSE LET h == patch[Len(patch)]
         IN  ApplyHunks(SubSeq(lines, 1, FirstLine(h) - 1) \o h.lines
                            \o SubSeq(lines, LastLine(h) + 1, Len(lines)),
                        SubSeq(patch, 1, Len(patch) - 1))

\* The edit of one hunk: the offsets of the hunk's lines in originalText,
\* moved by the start of the range and clipped to the range when a range is
\* given.
EditOfHunk(originalText, h, range) ==
    LET base == IF range.given THEN range.start ELSE 0
        from == base + LineStart(originalText, FirstLine(h))
        to == base + LineStart(originalText, LastLine(h) + 1)
    IN  [start |-> IF range.given THEN Min(from, range.end) ELSE from,
         end |-> IF range.given THEN Min(to, range.end) ELSE to,
         newText |-> Flatten(h.lines)]

\* getTextEditsFromPatch on a patch that parses: one edit per hunk, in the
\* order of the hunks.
TextEditsOfPatch(originalText, hunks, range) ==
    [i \in DOMAIN hunks |-> EditOfHunk(originalText, hunks[i], range)]

\* textEditor.edit replacing each edit's range by its text, all ranges
\* being ranges of the text before the edits; the editor brings a range
\* that leaves the text back to the text's end.
RECURSIVE ApplyEdits(_, _, _)
ApplyEdits(text, edits, length) ==
    IF edits = <<>> THEN text
    ELSE LET e == edits[Len(edits)]
             from == Min(e.start, length)
             to == Min(e.end, length)
         IN  ApplyEdits(SubSeq(text, 1, from) \o e.newText \o SubSeq(text, to + 1, Len(text)),
                        SubSeq(edits, 1, Len(edits) - 1), length)

\* formatDocument or formatRange on the document with a formatter that
\* answers the patch, and the edits applied (testFormatting).
FormatAndApply(range, patch) ==
    /\ patchRun = NoPatchRun
    /\ LET sent == CodeContent(document, range)
           edits == TextEditsOfPatch(sent, patch, range)
       IN  patchRun' = [pc |-> "done", range |-> range, sent |-> sent, hunks |-> patch,
                        canonical |-> Flatten(ApplyHunks(SplitLines(sent), patch)),
                        edits |-> edits,
                        applied |-> ApplyEdits(document.text, edits, Len(document.text))]
    /\ lastLookup' = NoLookup
    /\ UNCHANGED <<host, settingsCall, fs, envPATH, binPathCache, firstResult, config, document, outputChannel, req>>

\* The edited text is put back as it was.
Revert ==
    /\ patchRun # NoPatchRun
    /\ patchRun' = NoPatchRun
    /\ lastLookup' = NoLookup
    /\ UNCHANGED <<host, settingsCall, fs, envPATH, binPathCache, firstResult, config, document, outputChannel, req>>

-----------------------------------------------------------------------------
(* settings.ts: configuration-change events.                               *)

NoSettingsCall == [fn |-> "none"]

\* A setting's key and a section are the sequences of their dot-separated
\* segments: 'snakefmt.args' is <<"snakefmt", "args">>.
IsPrefix(a, b) == Len(a) <= Len(b) /\ SubSeq(b, 1, Len(a)) = a

Namespaces == {<<"snakefmt">>, <<"python">>}

\* The keys a ConfigurationChangeEvent may carry.
ChangedKeys ==
    {<<"snakefmt", n>> : n \in {"args", "config", "disableLinting", "enablePythonLinting",
                                 "path", "executable", "interpreter", "importStrategy",
                                 "showNotifications", "cwd"}}
    \cup {<<"snakefmt", "executable", "linux">>, <<"python", "args">>, <<"python", "trace">>}

\* e.affectsConfiguration(section): some changed key is the section or lies
\* under it.
affectsConfiguration(e, section) == \E k \in e : IsPrefix(section, k)

\* checkIfConfigurationChanged with every in place of includes.
checkIfConfigurationChanged_Every(e, namespace) ==
    LET settings == <<namespace \o <<"args">>, namespace \o <<"config">>,
                      namespace \o <<"disableLinting">>,
                      namespace \o <<"enablePythonLinting">>,
                      namespace \o <<"path">>, namespace \o <<"executable">>,
                      namespace \o <<"interpreter">>,
                      namespace \o <<"importStrategy">>,
                      namespace \o <<"showNotifications">> >>
        changed == [i \in DOMAIN settings |-> affectsConfiguration(e, settings[i])]
    IN  \A i \in DOMAIN changed : changed[i] = TRUE

\* checkIfConfigurationChanged(e, namespace)
checkIfConfigurationChanged(e, namespace) ==
    LET settings == <<namespace \o <<"args">>, namespace \o <<"config">>,
                      namespace \o <<"disableLinting">>,
                      namespace \o <<"enablePythonLinting">>,
                      namespace \o <<"path">>, namespace \o <<"executable">>,
                      namespace \o <<"interpreter">>,
                      namespace \o <<"importStrategy">>,
                      namespace \o <<"showNotifications">> >>
        changed == [i \in DOMAIN settings |-> affectsConfiguration(e, settings[i])]
    IN  \E i \in DOMAIN changed : changed[i] = TRUE

\* A configuration-change event is tested.
CheckIfConfigurationChanged(e, namespace) ==
    /\ settingsCall = NoSettingsCall
    /\ settingsCall' = [fn |-> "checkIfConfigurationChanged", e |-> e,
                        namespace |-> namespace,
                        result |-> checkIfConfigurationChanged(e, namespace)]
    /\ lastLookup' = NoLookup
    /\ UNCHANGED <<host, patchRun, fs, envPATH, binPathCache, firstResult, config, document, outputChannel, req>>

\* The caller has the result of its call of settings.ts.
SettingsReturn ==
    /\ settingsCall # NoSettingsCall
    /\ settingsCall' = NoSettingsCall
    /\ lastLookup' = NoLookup
    /\ UNCHANGED <<host, patchRun, fs, envPATH, binPathCache, firstResult, config, document, outputChannel, req>>

-----------------------------------------------------------------------------
(* settings.ts: resolveVariables.                                          *)

\* A string of a setting is the sequence of its pieces, each piece a run of
\* plain text, a placeholder or a replacement pattern of String.replace; no
\* two pieces of the model join into a placeholder.
EnvNames == {"HOME", "A", "B"}
EnvKey(name) == "${env:" \o name \o "}"
FolderKey(name) == "${workspaceFolder:" \o name \o "}"
InterpreterToken == <<"${interpreter}">>
Pieces == {"a", "${userHome}", "${workspaceFolder}", EnvKey("A"), EnvKey("B")}

RECURSIVE Strings(_)
Strings(n) ==
    IF n = 0 THEN {<<>>}
    ELSE Strings(n - 1) \cup {Append(t, c) : t \in {u \in Strings(n - 1) : Len(u) = n - 1}, c \in Pieces}

\* The values of environment variables: plain, empty, holding a placeholder,
\* holding the replacement patterns $& and $$.
EnvValues == {<<"x">>, <<>>, <<EnvKey("B")>>, <<"$&">>, <<"$$">>}

\* process.env in the order of Object.entries: at most n variables.
RECURSIVE Envs(_)
Envs(n) ==
    IF n = 0 THEN {<<>>}
    ELSE Envs(n - 1)
         \cup {Append(e, <<name, v>>) :
                 e \in {d \in Envs(n - 1) : Len(d) = n - 1},
                 name \in EnvNames, v \in EnvValues}

\* No variable is twice in an environment.
DistinctNames(env) == \A i, j \in DOMAIN env : env[i][1] = env[j][1] => i = j

\* process.env[name], undefined written as the empty string (both falsy).
EnvGet(env, name) ==
    IF \E i \in DOMAIN env : env[i][1] = name
    THEN env[CHOOSE i \in DOMAIN env : env[i][1] = name][2]
    ELSE <<>>

NoWorkspace == [given |-> FALSE, name |-> "", fsPath |-> <<>>]
WorkspaceWs == [given |-> TRUE, name |-> "ws", fsPath |-> <<"/ws">>]
ProcessCwd == <<"/cwd">>

\* Map.prototype.set on a map kept as the sequence of its entries in
\* insertion order: the value of a key already present is replaced in place.
MapSet(m, key, value) ==
    IF \E i \in DOMAIN m : m[i][1] = key
    THEN [i \in DOMAIN m |-> IF m[i][1] = key THEN <<key, value>> ELSE m[i]]
    ELSE Append(m, <<key, value>>)

RECURSIVE SetFolders(_, _)
SetFolders(m, folders) ==
    IF folders = <<>> THEN m
    ELSE SetFolders(MapSet(m, FolderKey(Head(folders).name), Head(folders).fsPath),
                    Tail(folders))

RECURSIVE SetEnv(_, _)
SetEnv(m, env) ==
    IF env = <<>> THEN m
    ELSE SetEnv(IF Head(env)[2] # <<>>
                THEN MapSet(m, EnvKey(Head(env)[1]), Head(env)[2])
                ELSE m,
                Tail(env))

\* The substitutions map resolveVariables builds.
Substitutions(workspace, folders, env) ==
    LET home == IF EnvGet(env, "HOME") # <<>> THEN EnvGet(env, "HOME")
                ELSE EnvGet(env, "USERPROFILE")
        m1 == IF home # <<>> THEN <<<<"${userHome}", home>>>> ELSE <<>>
        m2 == IF workspace.given THEN MapSet(m1, "${workspaceFolder}", workspace.fsPath)
              ELSE m1
        m3 == MapSet(m2, "${cwd}", ProcessCwd)
        m4 == SetFolders(m3, folders)
    IN  SetEnv(m4, env)

\* The replacement patterns of String.prototype.replace in a replacement
\* string: $& is the matched text, $$ is a dollar sign.
ExpandPatterns(value, matched) ==
    [i \in DOMAIN value |->
        CASE value[i] = "$&" -> matched
          [] value[i] = "$$" -> "$"
          [] OTHER -> value[i]]

\* s.replace(key, value) with a string key: the first occurrence only.
replace(s, key, value) ==
    IF \E i \in DOMAIN s : s[i] = key
    THEN LET i == CHOOSE i \in DOMAIN s : s[i] = key /\ \A j \in 1..(i - 1) : s[j] # key
         IN  SubSeq(s, 1, i - 1) \o ExpandPatterns(value, key) \o SubSeq(s, i + 1, Len(s))
    ELSE s

\* for (const [key, value] of substitutions) { s = s.replace(key, value); }
RECURSIVE ReplaceEach(_, _)
ReplaceEach(s, substitutions) ==
    IF substitutions = <<>> THEN s
    ELSE ReplaceEach(replace(s, Head(substitutions)[1], Head(substitutions)[2]),
                     Tail(substitutions))

\* The loop that splices the interpreter in place of '${interpreter}'.
NoInterpreter == [given |-> FALSE, list |-> <<>>]
Given(list) == [given |-> TRUE, list |-> list]
RECURSIVE SpliceInterpreter(_, _)
SpliceInterpreter(value, interpreter) ==
    IF value = <<>> THEN <<>>
    ELSE (IF interpreter.given /\ Head(value) = InterpreterToken
          THEN interpreter.list
          ELSE <<Head(value)>>) \o SpliceInterpreter(Tail(value), interpreter)

\* resolveVariables(value, workspace, interpreter, env) with the workspace
\* folders and process.env it reads.
resolveVariables(value, workspace, interpreter, folders, env) ==
    LET substitutions == Substitutions(workspace, folders, env)
        modifiedValue == SpliceInterpreter(value, interpreter)
    IN  [i \in DOMAIN modifiedValue |-> ReplaceEach(modifiedValue[i], substitutions)]

\* resolveVariables is called on one string.
ResolveVariables(s, workspace, env) ==
    /\ settingsCall = NoSettingsCall
    /\ settingsCall' = [fn |-> "resolveVariables", value |-> <<s>>,
                        substitutions |-> Substitutions(workspace, <<workspace>>, env),
                        result |-> resolveVariables(<<s>>, workspace, NoInterpreter,
                                                    <<workspace>>, env)]
    /\ lastLookup' = NoLookup
    /\ UNCHANGED <<host, patchRun, fs, envPATH, binPathCache, firstResult, config, document, outputChannel, req>>

-----------------------------------------------------------------------------
(* settings.ts: the configuration and the settings read from it.           *)

SettingKeys ==
    {"args", "config", "disableLinting", "enablePythonLinting", "path", "executable",
     "interpreter", "importStrategy", "showNotifications", "cwd"}
ArrayKeys == {"args", "path", "interpreter"}
BooleanKeys == {"disableLinting", "enablePythonLinting"}

\* A value that may be undefined is <<>> (undefined) or <<v>>.
Unset == <<>>
Some(v) == <<v>>
\* a ?? b
Coalesce(a, b) == IF a # Unset THEN a ELSE b

\* What config.inspect(key) shows: the value of the key at each level.
BlankLayers ==
    [defaultValue |-> Unset, globalValue |-> Unset,
     workspaceValue |-> Unset, workspaceFolderValue |-> Unset]
BlankConfig == [k \in SettingKeys |-> BlankLayers]

\* The value a key has at a level of the model, told apart by the level:
\* d(efault), g(lobal), w(orkspace), f(older).
LevelValue(key, level) ==
    IF key \in ArrayKeys THEN <<<<level>>>>
    ELSE IF key \in BooleanKeys THEN level \in {"g", "f"}
    ELSE <<level>>

LevelChoices(key, level) ==
    {Unset, Some(LevelValue(key, level))}
    \cup (IF key = "interpreter" /\ level \in {"g", "w"} THEN {Some(<<>>)} ELSE {})

KeyLayers(key) ==
    {[defaultValue |-> a, globalValue |-> b, workspaceValue |-> c, workspaceFolderValue |-> d] :
        a \in LevelChoices(key, "d"), b \in LevelChoices(key, "g"),
        c \in LevelChoices(key, "w"), d \in LevelChoices(key, "f")}

\* The configurations in which at most n keys have a value at some level.
RECURSIVE LayerConfigs(_)
LayerConfigs(n) ==
    IF n = 0 THEN {BlankConfig}
    ELSE UNION {{[c EXCEPT ![k] = l] : c \in LayerConfigs(n - 1), l \in KeyLayers(k)} :
                   k \in SettingKeys}

\* The configurations of argument lists with '${interpreter}' elements.
ArgLists ==
    {<<>>, <<InterpreterToken>>, <<<<"-m">>, InterpreterToken>>,
     <<InterpreterToken, <<"${cwd}">>, InterpreterToken>>}
InterpreterLists == {<<>>, <<<<"python">>>>, <<<<"conda">>, <<"run">>>>}
ArgumentConfigs ==
    {[BlankConfig EXCEPT !["args"].workspaceValue = Some(a),
                         !["path"].globalValue = Some(q),
                         !["interpreter"].workspaceValue = i] :
        a \in ArgLists, q \in ArgLists, i \in {Unset} \cup {Some(l) : l \in InterpreterLists}}

\* config.get(key): the value of the most specific level that has one.
ConfigGet(cfg, key) ==
    Coalesce(cfg[key].workspaceFolderValue,
             Coalesce(cfg[key].workspaceValue,
                      Coalesce(cfg[key].globalValue, cfg[key].defaultValue)))

\* config.get(key, defaultValue)
ConfigGetOr(cfg, key, defaultValue) == Coalesce(ConfigGet(cfg, key), Some(defaultValue))[1]

\* getGlobalValue reading the effective value.
getGlobalValue_Effective(cfg, key) == ConfigGet(cfg, key)

\* getGlobalValue(config, key): inspect?.globalValue ?? inspect?.defaultValue
getGlobalValue(cfg, key) == Coalesce(cfg[key].globalValue, cfg[key].defaultValue)

\* What getInterpreterDetails(resource) of ./python answers: its path.
ProviderPaths == {Unset, Some(<<>>), Some(<<<<"envpython">>>>)}

\* The interpreter chain that asks the provider whatever is configured.
ResolveInterpreter_AlwaysAsks(includeInterpreter, configured, providerPath) ==
    IF includeInterpreter
    THEN [interpreter |-> Coalesce(providerPath, Some(<<>>))[1], queried |-> TRUE]
    ELSE [interpreter |-> <<>>, queried |-> FALSE]

\* let interpreter = []; if (includeInterpreter) { ... }: the configured
\* value, or when that is empty the provider's path, or [].
ResolveInterpreter(includeInterpreter, configured, providerPath) ==
    IF includeInterpreter
    THEN LET interpreter == Coalesce(configured, Some(<<>>))[1]
         IN  IF Len(interpreter) = 0
             THEN [interpreter |-> Coalesce(providerPath, Some(<<>>))[1], queried |-> TRUE]
             ELSE [interpreter |-> interpreter, queried |-> FALSE]
    ELSE [interpreter |-> <<>>, queried |-> FALSE]

\* getCwd(config, workspace)
getCwd(cfg, workspace, folders, env) ==
    resolveVariables(<<ConfigGetOr(cfg, "cwd", workspace.fsPath)>>, workspace,
                     NoInterpreter, folders, env)[1]

\* getWorkspaceSettings(namespace, workspace, includeInterpreter): the
\* settings, and whether getInterpreterDetails was called.
getWorkspaceSettings(cfg, workspace, includeInterpreter, providerPath, folders, env) ==
    LET chain == ResolveInterpreter(includeInterpreter, ConfigGet(cfg, "interpreter"),
                                    providerPath)
        interpreter == chain.interpreter
    IN  [queried |-> chain.queried,
         settings |->
            [cwd |-> getCwd(cfg, workspace, folders, env),
             workspace |-> workspace.name,
             args |-> resolveVariables(ConfigGetOr(cfg, "args", <<>>), workspace,
                                       NoInterpreter, folders, env),
             config |-> ConfigGetOr(cfg, "config", <<>>),
             disableLinting |-> ConfigGetOr(cfg, "disableLinting", FALSE),
             enablePythonLinting |-> ConfigGetOr(cfg, "enablePythonLinting", FALSE),
             path |-> resolveVariables(ConfigGetOr(cfg, "path", <<>>), workspace,
                                       Given(interpreter), folders, env),
             executable |-> ConfigGetOr(cfg, "executable", <<>>),
             interpreter |-> resolveVariables(interpreter, workspace, NoInterpreter,
                                              folders, env),
             importStrategy |-> ConfigGetOr(cfg, "importStrategy", <<"useBundled">>),
             showNotifications |-> ConfigGetOr(cfg, "showNotifications", <<"off">>)]]

\* getGlobalSettings(namespace, includeInterpreter)
getGlobalSettings(cfg, includeInterpreter, providerPath) ==
    LET chain == ResolveInterpreter(includeInterpreter, getGlobalValue(cfg, "interpreter"),
                                    providerPath)
        Global(key, fallback) == Coalesce(getGlobalValue(cfg, key), Some(fallback))[1]
    IN  [queried |-> chain.queried,
         settings |->
            [cwd |-> ProcessCwd,
             workspace |-> ProcessCwd,
             args |-> Global("args", <<>>),
             path |-> Global("path", <<>>),
             interpreter |-> chain.interpreter,
             importStrategy |-> Global("importStrategy", <<"useBundled">>),
             showNotifications |-> Global("showNotifications", <<"off">>),
             config |-> Global("config", <<>>),
             disableLinting |-> Global("disableLinting", FALSE),
             enablePythonLinting |-> Global("enablePythonLinting", FALSE),
             executable |-> Global("executable", <<>>)]]

SettingsEnv == <<<<"HOME", <<"/home">>>>>>

\* The settings of the workspace folder ws are resolved.
GetWorkspaceSettings(cfg, includeInterpreter, providerPath) ==
    /\ settingsCall = NoSettingsCall
    /\ LET r == getWorkspaceSettings(cfg, WorkspaceWs, includeInterpreter, providerPath,
                                     <<WorkspaceWs>>, SettingsEnv)
       IN  settingsCall' = [fn |-> "getWorkspaceSettings", cfg |-> cfg,
                            includeInterpreter |-> includeInterpreter,
                            providerPath |-> providerPath,
                            queried |-> r.queried, result |-> r.settings]
    /\ lastLookup' = NoLookup
    /\ UNCHANGED <<host, patchRun, fs, envPATH, binPathCache, firstResult, config, document, outputChannel, req>>

\* The global settings are resolved.
GetGlobalSettings(cfg, includeInterpreter, providerPath) ==
    /\ settingsCall = NoSettingsCall
    /\ LET r == getGlobalSettings(cfg, includeInterpreter, providerPath)
       IN  settingsCall' = [fn |-> "getGlobalSettings", cfg |-> cfg,
                            includeInterpreter |-> includeInterpreter,
                            providerPath |-> providerPath,
                            queried |-> r.queried, result |-> r.settings]
    /\ lastLookup' = NoLookup
    /\ UNCHANGED <<host, patchRun, fs, envPATH, binPathCache, firstResult, config, document, outputChannel, req>>

-----------------------------------------------------------------------------
(* Specifications.                                                         *)

EmptyMap == [n \in {} |-> ""]
InitialConfig == [executable |-> "snakefmt", executablePlatform |-> "", config |-> ""]
InitialDocument == [text |-> <<"a", LF>>, eol |-> "LF"]
InitialChannel == [shown |-> FALSE, lines |-> <<>>]
InitialHost == [isUntitled |-> FALSE, fileName |-> "/proj/Snakefile", workspaceFolders |-> <<"/ws">>]

\* The extension after activation, formatting one document of any text.
Init ==
    /\ fs = {Cwd, "/a", "/a/snakefmt", "custom.toml"}
    /\ envPATH = <<"/a">>
    /\ binPathCache = EmptyMap
    /\ lastLookup = NoLookup
    /\ firstResult = EmptyMap
    /\ config \in {c \in Configurations : c.executable = "snakefmt" /\ c.config = "custom.toml"}
    /\ document \in Documents(MaxTextLen)
    /\ outputChannel = InitialChannel
    /\ req = ReqIdle
    /\ host = InitialHost
    /\ settingsCall = NoSettingsCall
    /\ patchRun = NoPatchRun

Next ==
    \/ \E r \in Ranges(document.text), token \in BOOLEAN, stdinOpen \in BOOLEAN :
          StartFormat(r, token, stdinOpen)
    \/ \E o \in Outcomes(req.formatCommandBinPath) : ProcExit(o)
    \/ Cancel
    \/ Callback
    \/ Dispose

\* Format requests on one document, with every completion of the
\* subprocess and every moment of cancellation.
Spec == Init /\ [][Next]_vars

\* The same requests when the subprocess eventually completes (or fails to
\* start) or cancellation is eventually requested, and the event loop runs
\* the completion callback it has queued.
FairSpec ==
    /\ Init
    /\ [][Next]_vars
    /\ WF_vars((\E o \in Outcomes(req.formatCommandBinPath) : ProcExit(o)) \/ Cancel)
    /\ WF_vars(Callback)

SpawnInit ==
    /\ fs = {Cwd, "/a", "/a/snakefmt"}
    /\ envPATH = <<"/a">>
    /\ binPathCache = EmptyMap
    /\ lastLookup = NoLookup
    /\ firstResult = EmptyMap
    /\ config = InitialConfig
    /\ document = InitialDocument
    /\ outputChannel = InitialChannel
    /\ req = ReqIdle
    /\ host \in Hosts
    /\ settingsCall = NoSettingsCall
    /\ patchRun = NoPatchRun

SpawnNext ==
    \/ \E r \in {NoRange}, token \in BOOLEAN : StartFormat(r, token, TRUE)
    \/ \E cfg \in Configurations : ConfigChange(cfg)
    \/ \E p \in ConfigFiles : FsCreate(p)
    \/ \E p \in ConfigFiles : FsRemove(p)
    \/ \E o \in {x \in Outcomes(req.formatCommandBinPath) : x.stderr = ""} : ProcExit(o)
    \/ Cancel
    \/ Callback
    \/ Dispose

\* Format requests while the settings and the config file change.
SpawnSpec == SpawnInit /\ [][SpawnNext]_vars

BinInit ==
    /\ fs = {Cwd, "/a", "/a/snakefmt"}
    /\ envPATH \in PathLists(MaxPathParts)
    /\ binPathCache = EmptyMap
    /\ lastLookup = NoLookup
    /\ firstResult = EmptyMap
    /\ config = InitialConfig
    /\ document = InitialDocument
    /\ outputChannel = InitialChannel
    /\ req = ReqIdle
    /\ host = InitialHost
    /\ settingsCall = NoSettingsCall
    /\ patchRun = NoPatchRun

BinNext ==
    \/ \E n \in BinNames : Lookup(n)
    \/ \E p \in BinFiles : FsCreate(p)
    \/ \E p \in BinFiles : FsRemove(p)
    \/ \E l \in PathLists(MaxPathParts) : SetPath(l)

\* The executable locator alone, under every file-system and PATH change.
BinSpec == BinInit /\ [][BinNext]_vars

SettingsInit ==
    /\ fs = {Cwd, "/a", "/a/snakefmt"}
    /\ envPATH = <<"/a">>
    /\ binPathCache = EmptyMap
    /\ lastLookup = NoLookup
    /\ firstResult = EmptyMap
    /\ config = InitialConfig
    /\ document = InitialDocument
    /\ outputChannel = InitialChannel
    /\ req = ReqIdle
    /\ host = InitialHost
    /\ settingsCall = NoSettingsCall
    /\ patchRun = NoPatchRun

\* The provider is asked only in a call with includeInterpreter.
InterpreterInputs ==
    {<<FALSE, Unset>>} \cup {<<TRUE, q>> : q \in ProviderPaths}

SettingsNext ==
    \/ /\ settingsCall = NoSettingsCall
       /\ \E e \in SUBSET ChangedKeys, namespace \in Namespaces :
             CheckIfConfigurationChanged(e, namespace)
    \/ /\ settingsCall = NoSettingsCall
       /\ \E str \in Strings(MaxStrLen), env \in {e \in Envs(MaxEnvVars) : DistinctNames(e)} :
             ResolveVariables(str, WorkspaceWs, env)
    \/ /\ settingsCall = NoSettingsCall
       /\ \E cfg \in LayerConfigs(MaxConfiguredKeys) \cup ArgumentConfigs,
             i \in InterpreterInputs :
             GetWorkspaceSettings(cfg, i[1], i[2])
    \/ /\ settingsCall = NoSettingsCall
       /\ \E cfg \in LayerConfigs(MaxConfiguredKeys) \cup ArgumentConfigs,
             i \in InterpreterInputs :
             GetGlobalSettings(cfg, i[1], i[2])
    \/ SettingsReturn

\* The functions of settings.ts, each called with every input.
SettingsSpec == SettingsInit /\ [][SettingsNext]_vars

PatchInit ==
    /\ fs = {Cwd, "/a", "/a/snakefmt"}
    /\ envPATH = <<"/a">>
    /\ binPathCache = EmptyMap
    /\ lastLookup = NoLookup
    /\ firstResult = EmptyMap
    /\ config = InitialConfig
    /\ document \in Documents(MaxTextLen)
    /\ outputChannel = InitialChannel
    /\ req = ReqIdle
    /\ host = InitialHost
    /\ settingsCall = NoSettingsCall
    /\ patchRun = NoPatchRun

PatchNext ==
    \/ /\ patchRun = NoPatchRun
       /\ \E r \in Ranges(document.text) :
             \E patch \in Patches(Len(SplitLines(CodeContent(document, r))), MaxHunks) :
                FormatAndApply(r, patch)
    \/ Revert

\* Documents formatted, whole or in a range, by a formatter that answers
\* any patch of the text it is sent.
PatchSpec == PatchInit /\ [][PatchNext]_vars

-----------------------------------------------------------------------------
(* Properties of the process invoker (Spec).                               *)

Done == req.pc = "done"
Launched == ~req.outcome.error.isNull /\ req.outcome.error.code \in ExitCodes
CancelledFirst == req.cancel \in {"running", "exited"}

\* C1: a request whose cancellation is requested before the completion
\* callback runs has its subprocess killed, is rejected with the cancellation
\* error, never resolves with edits, and the output of its process is never
\* passed to the patch translator; a request not cancelled before the
\* callback is settled by the callback.
C1_CancelWins ==
    /\ CancelledFirst =>
          /\ req.killed
          /\ req.promise = Rejected(ValString(CancelMessage))
          /\ req.translated = <<>>
    /\ (Done /\ ~CancelledFirst) =>
          req.promise = OnExecFileDone(req.formatCommandBinPath, req.codeContent, req.range,
                                       req.outcome.error, req.outcome.stdout,
                                       req.outcome.stderr).settle

\* C2: a request cancelled before its subprocess completes shows no message
\* and neither shows nor clears nor writes the output channel, also when the
\* callback later runs with an error and non-empty stderr.
C2_CancelledIsSilent ==
    req.cancel = "running" => (req.messages = <<>> /\ req.channelOps = <<>>)

\* C3: a completion with an error, non-empty stderr and a message saying
\* that the binary could not be started shows the "not available" message
\* naming the resolved path and resolves with no edits; a formatter that
\* was started and exited non-zero is never reported as not available.
C3_NotAvailableMeansNotLaunched ==
    /\ (Done /\ ~req.outcome.error.isNull /\ req.outcome.stderr # ""
             /\ startsWith(req.outcome.error.message, "spawn")) =>
          /\ req.messages = <<NotAvailableMessage(req.formatCommandBinPath)>>
          /\ ~CancelledFirst => req.promise = Resolved(ValUndefined)
    /\ (Done /\ Launched) =>
          \A i \in 1..Len(req.messages) :
              req.messages[i] # NotAvailableMessage(req.formatCommandBinPath)

\* C4: a formatter that was started, exited non-zero and wrote to stderr has
\* its request rejected with 'Cannot format due to syntax errors.', with the
\* stderr text written to the cleared output channel and no edits returned.
C4_SyntaxErrorRejects ==
    (Done /\ Launched /\ req.outcome.stderr # "") =>
        /\ ~CancelledFirst => req.promise = Rejected(ValString(SyntaxErrorsMessage))
        /\ req.promise.value.kind # "edits"
        /\ \E i \in 1..Len(req.channelOps) :
              /\ req.channelOps[i] = <<"appendLine", req.outcome.stderr>>
              /\ \E j \in 1..(i - 1) : req.channelOps[j] = <<"clear">>

SelectedText ==
    IF req.range.given
    THEN SubSeq(document.text, req.range.start + 1, req.range.end)
    ELSE document.text
DocumentEol == IF document.eol = "CRLF" THEN <<CR, LF>> ELSE <<LF>>
C8_StdinIsTheText ==
    (req.pc # "idle" /\ req.stdin.open) =>
        /\ req.stdin.ended
        /\ IF endsWith(SelectedText, DocumentEol)
           THEN req.stdin.written = SelectedText
           ELSE req.stdin.written \in {SelectedText \o <<LF>>, SelectedText \o <<CR, LF>>}

-----------------------------------------------------------------------------
(* Properties of the argument list (SpawnSpec).                            *)

\* C7: the argument list is the compact-diff flag and '-', followed by
\* '--config' and the path exactly when a non-empty config path was
\* configured and existed on disk when the request was made.
C7_ArgumentList ==
    req.pc # "idle" =>
        req.args = IF req.cfg_file # "" /\ req.cfgExisted
                   THEN <<"--compact-diff", "-", "--config", req.cfg_file>>
                   ELSE <<"--compact-diff", "-">>

C7_Witness ==
    /\ req.pc # "idle"
    /\ req.cfg_file = "custom.toml"
    /\ ~req.cfgExisted
    /\ "custom.toml" \in fs
    /\ req.args = <<"--compact-diff", "-">>

-----------------------------------------------------------------------------
(* Properties of the executable locator (BinSpec).                         *)

\* Directory dir holds a file named name.
DirHolds(dir, name, fsNow) ==
    name \in BareNames /\ dir # "" /\ (dir \o "/" \o name) \in fsNow

\* What the first lookup of name is to return.
RECURSIVE FirstMatch(_, _, _, _)
FirstMatch(pathparts, i, name, fsNow) ==
    IF i > Len(pathparts) THEN name
    ELSE IF DirHolds(pathparts[i], name, fsNow) THEN pathparts[i] \o "/" \o name
    ELSE FirstMatch(pathparts, i + 1, name, fsNow)

\* C9: the first lookup of a name returns the name if it is an existing
\* path, else its join with the first directory of PATH that holds a file
\* of that name, else the name.
C9_FirstLookup ==
    (lastLookup.made /\ lastLookup.first) =>
        lastLookup.result = IF lastLookup.name \in fs THEN lastLookup.name
                            ELSE FirstMatch(envPATH, 1, lastLookup.name, fs)

\* C10: every lookup of a name returns what the first lookup of that name
\* returned, whatever happened to the file system, to PATH and to other
\* names in between.
C10_Memoized ==
    lastLookup.made => lastLookup.result = firstResult[lastLookup.name]

-----------------------------------------------------------------------------
(* Properties of the patch translation's failure (Spec).                   *)

\* The callback called the patch translator and the translator raised a
\* parsing fault.
TranslationFaulted ==
    /\ Done
    /\ req.translated # <<>>
    /\ LET call == req.translated[1]
       IN  getTextEditsFromPatch(call.text, call.patch, call.range).kind = "fault"

\* C19: when the translation of the formatter's output raises a parsing
\* fault the request is rejected and no edits are delivered: the promise is
\* never resolved, with a partial edit set or with anything else.
C19_MalformedFailsClosed ==
    TranslationFaulted =>
        /\ req.promise.state = "rejected"
        /\ req.promise.value.kind # "edits"

\* A request not cancelled whose translation faulted, rejected with the fault.
C19_Witness ==
    /\ TranslationFaulted
    /\ req.cancel = "no"
    /\ req.promise = Rejected(ValFault(req.translated[1]))

-----------------------------------------------------------------------------
(* Properties of the spawn request's working directory (SpawnSpec).        *)

\* The working directory of a request on the document: the directory of its
\* file, or for an untitled document the first workspace folder, or ''.
RequestWorkingDirectory ==
    IF ~host.isUntitled THEN dirname(host.fileName)
    ELSE IF Len(host.workspaceFolders) > 0 THEN Head(host.workspaceFolders)
    ELSE ""

\* C20: the formatter subprocess of every request is spawned with the
\* working directory computed for the request: that directory is the cwd of
\* the spawn request's options.
C20_SpawnInWorkingDirectory ==
    req.pc # "idle" =>
        /\ req.workingPath = RequestWorkingDirectory
        /\ req.options.cwd = RequestWorkingDirectory

-----------------------------------------------------------------------------
(* Properties of the settings resolver (SettingsSpec).                     *)

\* The settings whose change restarts the server.
WatchedSettings ==
    {"args", "config", "disableLinting", "enablePythonLinting", "path", "executable",
     "interpreter", "importStrategy", "showNotifications"}

\* C11: checkIfConfigurationChanged(event, namespace) is true exactly when
\* the event affects one of the nine watched settings under the namespace;
\* an event that affects only other keys gives false.
C11_ChangedIffWatchedKeyAffected ==
    settingsCall.fn = "checkIfConfigurationChanged" =>
        (settingsCall.result = TRUE <=>
            \E n \in WatchedSettings, k \in settingsCall.e :
                IsPrefix(settingsCall.namespace \o <<n>>, k))

\* An event that changes the last watched setting, and another key, has
\* given true.
C11_Witness ==
    /\ settingsCall.fn = "checkIfConfigurationChanged"
    /\ settingsCall.namespace = <<"snakefmt">>
    /\ settingsCall.e = {<<"snakefmt", "showNotifications">>, <<"snakefmt", "cwd">>}
    /\ settingsCall.result = TRUE

\* The value the substitution map holds for a key.
ValueOf(substitutions, key) ==
    substitutions[CHOOSE i \in DOMAIN substitutions : substitutions[i][1] = key][2]
HasKey(substitutions, key) == \E i \in DOMAIN substitutions : substitutions[i][1] = key

\* The string with every occurrence of every key of the map replaced by the
\* key's value, the values taken as they are.
RECURSIVE SubstituteAll(_, _)
SubstituteAll(str, substitutions) ==
    IF str = <<>> THEN <<>>
    ELSE (IF HasKey(substitutions, Head(str))
          THEN ValueOf(substitutions, Head(str))
          ELSE <<Head(str)>>) \o SubstituteAll(Tail(str), substitutions)

\* A value of plain text: no placeholder and no replacement pattern in it.
PlainValue(v) ==
    \A i \in DOMAIN v : v[i] \notin {EnvKey(n) : n \in EnvNames} \cup {"$&", "$$"}

\* C15: in the strings resolveVariables returns, every occurrence of a
\* placeholder whose key is in the substitution map is replaced by the key's
\* value, also where one placeholder occurs several times in a string
\* (stated for maps of plain values; values that hold placeholders or
\* replacement patterns are the matter of C16).
C15_EveryOccurrenceReplaced ==
    (/\ settingsCall.fn = "resolveVariables"
     /\ \A i \in DOMAIN settingsCall.substitutions :
            PlainValue(settingsCall.substitutions[i][2])) =>
        \A i \in DOMAIN settingsCall.value :
            settingsCall.result[i] =
                SubstituteAll(settingsCall.value[i], settingsCall.substitutions)

\* No key of the map occurs twice in the string.
KeysOccurOnce(str, substitutions) ==
    \A i, j \in DOMAIN str :
        (HasKey(substitutions, str[i]) /\ str[i] = str[j]) => i = j

\* C16: substitution keys are matched in isolation: a value a substitution
\* inserts is inserted as it is and is not changed by another substitution,
\* so that the result is the same in whatever order the map is iterated,
\* also when a value holds placeholder text or replacement patterns.
C16_IsolatedSubstitution ==
    settingsCall.fn = "resolveVariables" =>
        \A i \in DOMAIN settingsCall.value :
            /\ \A f \in Permutations(DOMAIN settingsCall.substitutions) :
                  ReplaceEach(settingsCall.value[i],
                              [k \in DOMAIN settingsCall.substitutions |->
                                  settingsCall.substitutions[f[k]]])
                  = settingsCall.result[i]
            /\ KeysOccurOnce(settingsCall.value[i], settingsCall.substitutions) =>
                  settingsCall.result[i] =
                      SubstituteAll(settingsCall.value[i], settingsCall.substitutions)

\* The argument list a configured list resolves to: the interpreter in place
\* of each '${interpreter}' element, every other element with its
\* placeholders replaced.
RECURSIVE Spliced(_, _, _)
Spliced(list, interpreter, substitutions) ==
    IF list = <<>> THEN <<>>
    ELSE (IF Head(list) = InterpreterToken
          THEN interpreter
          ELSE <<SubstituteAll(Head(list), substitutions)>>)
         \o Spliced(Tail(list), interpreter, substitutions)

\* The value of the most specific level at which the key is set.
Configured(layers) ==
    IF layers.workspaceFolderValue # Unset THEN layers.workspaceFolderValue
    ELSE IF layers.workspaceValue # Unset THEN layers.workspaceValue
    ELSE IF layers.globalValue # Unset THEN layers.globalValue
    ELSE layers.defaultValue

ConfiguredList(layers) == IF Configured(layers) = Unset THEN <<>> ELSE Configured(layers)[1]

\* C12: in the settings of a workspace every '${interpreter}' element of the
\* configured args and of the configured path is replaced in place by the
\* elements of the resolved interpreter list, in order, and no
\* '${interpreter}' element is left in the resolved args or path.
C12_InterpreterSpliced ==
    settingsCall.fn = "getWorkspaceSettings" =>
        LET substitutions == Substitutions(WorkspaceWs, <<WorkspaceWs>>, SettingsEnv)
            result == settingsCall.result
        IN  /\ result.args = Spliced(ConfiguredList(settingsCall.cfg["args"]),
                                     result.interpreter, substitutions)
            /\ result.path = Spliced(ConfiguredList(settingsCall.cfg["path"]),
                                     result.interpreter, substitutions)
            /\ \A i \in DOMAIN result.args : result.args[i] # InterpreterToken
            /\ \A i \in DOMAIN result.path : result.path[i] # InterpreterToken

\* The interpreter setting a call reads: the workspace's effective value,
\* and for the global settings the global value or else the default.
ConfiguredInterpreter ==
    LET layers == settingsCall.cfg["interpreter"]
        value == IF settingsCall.fn = "getWorkspaceSettings" THEN Configured(layers)
                 ELSE IF layers.globalValue # Unset THEN layers.globalValue
                 ELSE layers.defaultValue
    IN  IF value = Unset THEN <<>> ELSE value[1]

\* C13: the interpreter is resolved by a fixed chain. With resolution
\* requested, a configured non-empty interpreter is used and the provider is
\* not asked; with none configured the provider is asked and its path is
\* used, the list being empty when the provider has none. With resolution
\* not requested the provider is not asked and the list is empty.
C13_InterpreterChain ==
    settingsCall.fn \in {"getWorkspaceSettings", "getGlobalSettings"} =>
        /\ (settingsCall.includeInterpreter /\ ConfiguredInterpreter # <<>>) =>
              /\ settingsCall.result.interpreter = ConfiguredInterpreter
              /\ ~settingsCall.queried
        /\ (settingsCall.includeInterpreter /\ ConfiguredInterpreter = <<>>) =>
              /\ settingsCall.queried
              /\ settingsCall.result.interpreter =
                    (IF settingsCall.providerPath = Unset THEN <<>>
                     ELSE settingsCall.providerPath[1])
        /\ ~settingsCall.includeInterpreter =>
              /\ ~settingsCall.queried
              /\ settingsCall.result.interpreter = <<>>

\* The workspace's interpreter is set empty over a global one: the provider
\* was asked and its path is the interpreter.
C13_Witness ==
    /\ settingsCall.fn = "getWorkspaceSettings"
    /\ settingsCall.includeInterpreter
    /\ settingsCall.cfg["interpreter"].workspaceValue = Some(<<>>)
    /\ settingsCall.cfg["interpreter"].globalValue = Some(<<<<"g">>>>)
    /\ settingsCall.queried
    /\ settingsCall.result.interpreter = <<<<"envpython">>>>

\* The configuration without its workspace and workspace-folder values.
GlobalPart(cfg) ==
    [k \in DOMAIN cfg |->
        [cfg[k] EXCEPT !.workspaceValue = Unset, !.workspaceFolderValue = Unset]]

\* The defaults built into getGlobalSettings.
BuiltInDefault(key) ==
    CASE key \in {"importStrategy"} -> <<"useBundled">>
      [] key \in {"showNotifications"} -> <<"off">>
      [] key \in BooleanKeys -> FALSE
      [] OTHER -> <<>>

\* The key's global value when it is set, and its default otherwise.
GlobalOrDefault(cfg, key) ==
    IF cfg[key].globalValue # Unset THEN cfg[key].globalValue[1]
    ELSE IF cfg[key].defaultValue # Unset THEN cfg[key].defaultValue[1]
    ELSE BuiltInDefault(key)

\* The global settings are those of the configuration without its
\* workspace and workspace-folder values.
GlobalSettingsIgnoreWorkspace ==
    settingsCall.result =
        getGlobalSettings(GlobalPart(settingsCall.cfg), settingsCall.includeInterpreter,
                          settingsCall.providerPath).settings

\* C14 as stated: the global settings depend on the global values and the
\* defaults only, and each of the keys is its global value when that is set
\* and its default otherwise.
C14_GlobalValuesOnly ==
    settingsCall.fn = "getGlobalSettings" =>
        /\ GlobalSettingsIgnoreWorkspace
        /\ \A key \in WatchedSettings :
              settingsCall.result[key] = GlobalOrDefault(settingsCall.cfg, key)

\* C14 amended: the global settings depend on the global values and the
\* defaults only (given what the interpreter provider answers), and each key
\* other than interpreter is its global value when that is set and its
\* default otherwise.
C14_GlobalValuesOnlyButInterpreter ==
    settingsCall.fn = "getGlobalSettings" =>
        /\ GlobalSettingsIgnoreWorkspace
        /\ \A key \in WatchedSettings \ {"interpreter"} :
              settingsCall.result[key] = GlobalOrDefault(settingsCall.cfg, key)

\* args has a global, a workspace and a workspace-folder value, and the
\* global settings hold the global one.
C14_Witness ==
    /\ settingsCall.fn = "getGlobalSettings"
    /\ settingsCall.cfg["args"].globalValue = Some(<<<<"g">>>>)
    /\ settingsCall.cfg["args"].workspaceValue = Some(<<<<"w">>>>)
    /\ settingsCall.cfg["args"].workspaceFolderValue = Some(<<<<"f">>>>)
    /\ settingsCall.result.args = <<<<"g">>>>

-----------------------------------------------------------------------------
(* Properties of the edits (PatchSpec).                                    *)

\* content.split(/\r?\n/) of compareFiles: the lines without their
\* terminators.
RECURSIVE LinesOf(_)
LinesOf(t) ==
    IF \E i \in DOMAIN t : t[i] = LF
    THEN LET i == CHOOSE i \in DOMAIN t : t[i] = LF /\ \A j \in 1..(i - 1) : t[j] # LF
             line == IF i > 1 /\ t[i - 1] = CR THEN SubSeq(t, 1, i - 2) ELSE SubSeq(t, 1, i - 1)
         IN  <<line>> \o LinesOf(SubSeq(t, i + 1, Len(t)))
    ELSE <<t>>

\* C17: the edits formatDocument returns, applied in one batch, give a text
\* whose lines are, line for line and in number, the lines of the
\* formatter's output; each edit's offsets bound exactly the lines of the
\* document its hunk replaces, the edits lie within the document and do not
\* overlap.
C17_EditsGiveFormatterOutput ==
    (patchRun.pc = "done" /\ ~patchRun.range.given) =>
        /\ LinesOf(patchRun.applied) = LinesOf(patchRun.canonical)
        /\ \A i \in DOMAIN patchRun.edits :
              /\ LastLine(patchRun.hunks[i]) <= Len(SplitLines(document.text))
              /\ patchRun.edits[i].start =
                    LineStart(document.text, FirstLine(patchRun.hunks[i]))
              /\ patchRun.edits[i].end =
                    LineStart(document.text, LastLine(patchRun.hunks[i]) + 1)
              /\ patchRun.edits[i].start <= patchRun.edits[i].end
              /\ patchRun.edits[i].end <= Len(document.text)
        /\ \A i \in DOMAIN patchRun.edits :
              i < Len(patchRun.edits) =>
                  patchRun.edits[i].end <= patchRun.edits[i + 1].start

\* The text of the requested range.
RangeText == SubSeq(document.text, patchRun.range.start + 1, patchRun.range.end)

-----------------------------------------------------------------------------
(* Properties of the executable of a request (SpawnSpec).                  *)

\* The executable the configuration names: the platform's setting, the
\* general setting when that is empty, 'snakefmt' when both are.
ConfiguredExecutable ==
    IF config.executablePlatform # "" THEN config.executablePlatform
    ELSE IF config.executable # "" THEN config.executable
    ELSE "snakefmt"

\* A request has just been made.
JustRequested == lastLookup.made /\ req.pc = "running"

-----------------------------------------------------------------------------
(* Properties of the settling of a request (FairSpec).                     *)

Settled == req.promise.state # "pending"

\* The promise of the request in hand keeps the outcome it has.
OutcomeKept == (Settled /\ req'.pc # "idle") => req'.promise = req.promise

\* C21: a request settles exactly once. A request that was made is
\* eventually resolved or rejected; once the completion callback has run,
\* whatever branch it took, the request is settled; and no later step,
\* completion after cancellation or cancellation after completion, changes
\* an outcome already delivered.
C21_SettlesExactlyOnce ==
    /\ (req.pc = "running") ~> Settled
    /\ [](Done => Settled)
    /\ [][OutcomeKept]_vars

\* Cancellation was requested after the process ended with edits to give
\* and before the callback ran: the callback's resolve changed nothing.
C21_Witness ==
    /\ Done
    /\ req.cancel = "exited"
    /\ req.outcome.error.isNull
    /\ req.outcome.stdout = "patch"
    /\ req.promise = Rejected(ValString(CancelMessage))

=============================================================================
